---- MODULE Spec2Model ----
(***************************************************************************)
(* Bucket copy / transform job (package mirror, XactTCB and tcbFactory):   *)
(* two-phase admission, job lifecycle (Start, Run, TxnAbort), the receive   *)
(* handler and the ref-counted quiescence wait.                            *)
(*                                                                         *)
(* Several next-state relations share the variables: SpecAdm drives the    *)
(* admission factory, Spec drives one job from Start to Finish, SpecRecv   *)
(* follows concurrent calls of recv statement by statement, SpecPool       *)
(* follows copyObject with the pool of its parameters, and SpecCert drives *)
(* the certificate loader (package certloader). The variables of one part  *)
(* stay as Init leaves them in the others.                                 *)
(*                                                                         *)
(* debug.Assert is a no-op in a release build and a panic in a debug       *)
(* build. The two builds behave alike up to the first failed assertion, so *)
(* build stays "any" until then; there it becomes "release" and the step   *)
(* goes on, or "debug" and the process has panicked and takes no further   *)
(* step.                                                                   *)
(***************************************************************************)
EXTENDS Integers, Sequences, FiniteSets, TLC

VARIABLES
    build,        \* "any"; "release" or "debug" once an assertion has failed
    \* ---- admission (tcbFactory and the registry that calls it)
    running,      \* the registry's running entry for the bucket pair, or NoEntry
    created,      \* number of XactTCB instances constructed (newXactTCB)
    nreq,         \* admission requests handled so far
    last,         \* the last admission request, the entry it met and its outcome
    \* ---- one job
    pc,           \* position of the job: Start, then the steps of Run
    refc,         \* XactTCB.refc, the peer-ack counter
    ntargets,     \* smap.CountTargets() read by Start
    wg,           \* XactTCB.wg, the startup wait group counter
    dm,           \* the data mover: [set, reg, open]
    nOpen,        \* calls of dm.Open
    nClose,       \* calls of dm.Close
    closeCalls,   \* the errors dm.Close was called with, in order
    txnAborted,   \* TxnAbort was called
    aborted,      \* the job was aborted externally (xact.Abort)
    shard,        \* objects in the local shard, numbered 1..shard
    todo,         \* objects of the local shard not yet visited
    wk,           \* per worker: "idle" or "copy" (inside copyObject)
    cur,          \* per worker: the object (lom) it is visiting, 0 when idle
    objs,         \* the job's object counter (ObjectsInc)
    bytes,        \* the job's byte counter (BytesAdd)
    okSet,        \* history: the objects whose CopyObject returned no error
    capSeen,      \* history: the capacity status reported an error
    pipeErr,      \* first error returned by a copyObject visit
    waitErr,      \* err returned by XactBckJog.Wait (line 209)
    sent,         \* records this node handed to the data mover, in order
    errSlot,      \* XactTCB.err (cos.ErrValue)
    firstErr,     \* history: the first error of the job in time
    rc,           \* per data record received: "idle" (not yet), "put" (inside
                  \* PutObject) or "done" (recv has returned)
    nDone,        \* 'done sending' records received
    total,        \* time spent in the quiescence wait, in polls
    q,            \* result of Quiesce
    runErr,       \* the err Run closes the channel and finishes with
    finCalls,     \* the errors Finish was called with, in order
    \* ---- the receive handler, statement by statement (SpecRecv)
    cb,           \* per call of recv: its position in the handler
    rdr,          \* per call of recv: the payload stream [unread, freed]
    path,         \* per call of recv: the path on which it returned
    \* ---- copyObject, statement by statement, and cpObjPool (SpecPool)
    ppc,          \* per worker: its position in copyObject
    held,         \* per worker: the CopyObjectParams it borrowed, 0 for none
    params,       \* per CopyObjectParams: the values of its fields
    inPool,       \* cpObjPool: the CopyObjectParams put and not taken again
    nalloc,       \* CopyObjectParams allocated so far (&CopyObjectParams{})
    \* ---- the certificate loader (package certloader, SpecCert)
    gcl,          \* the loader was constructed by Init
    xcert,        \* certLoader.xcert: the certificate stored, or NoCert
    flags,        \* the node alert flags the loader sets and clears
    file,         \* the certificate file on disk, or NoFile
    now,          \* the clock
    hkReg,        \* the housekeeping callback is registered
    got           \* outcome of the last GetCert or GetClientCert

admVars == <<running, created, nreq, last>>
jobVars == <<pc, refc, ntargets, wg, dm, nOpen, nClose, closeCalls, txnAborted,
             aborted,
             shard, todo, wk, cur, objs, bytes, okSet, capSeen,
             pipeErr, waitErr, sent, errSlot, firstErr, rc, nDone,
             total, q, runErr, finCalls>>
recvVars == <<cb, rdr, path>>
poolVars == <<ppc, held, params, inPool, nalloc>>
certVars == <<gcl, xcert, flags, file, now, hkReg, got>>
cntVars == <<shard, cur, objs, bytes, okSet, capSeen>>
vars == <<build, admVars, jobVars, recvVars, poolVars, certVars, poolVars>>

None == "none"
Nil  == "nil"

\* A debug.Assert failed in a debug build.
panicked == build = "debug"

\* The builds the binary may be, given that the asserted condition is ok.
Asserted(ok) == IF ok \/ build # "any" THEN {build} ELSE {"release", "debug"}

\* No running entry in the registry (job IDs start at 1).
NoEntry == [uuid |-> 0, bckFrom |-> 0, phase |-> None, argsPhase |-> None,
            xactPhase |-> None]
\* No admission request handled yet.
NoReq == [uuid |-> 0, bckFrom |-> 0, phase |-> None]

\* ---- bounds of the model
MaxReqs    == 3   \* admission requests per behaviour
NumUUIDs   == 2   \* distinct job IDs
NumBIDs    == 2   \* distinct source bucket identities
MaxTargets == 2   \* targets in the cluster map at Start
MaxExtra   == 1   \* markers beyond one per peer (duplicate, late joiner)
MaxObjs    == 2   \* objects in the local shard
MaxData    == 1   \* data records received, each by its own call of recv
MaxTime    == 1   \* polls of the quiescence wait before the maximum bound
NumCallbacks == 2 \* concurrent calls of recv followed statement by statement
MaxParams  == 3   \* CopyObjectParams allocated per behaviour
MaxNow     == 2   \* the clock runs from 0 to MaxNow
MaxVer     == 2   \* versions of the certificate file written to disk

\* ---- program constants
doneSendingOpcode    == 27182
etlBucketParallelCnt == 2
ContentLengthUnknown == -1

ActBegin  == "begin"
ActCommit == "commit"
Phases    == {ActBegin, ActCommit}

UUIDs   == 1..NumUUIDs
BIDs    == 1..NumBIDs
Workers == 1..etlBucketParallelCnt
RecvIds == 1..MaxData
Callbacks == 1..NumCallbacks
ParamIds == 1..MaxParams

(***************************************************************************)
(* Admission                                                               *)
(***************************************************************************)

\* An admission request: xreg.Args.UUID and the custom *xreg.TCBArgs.
Requests == [uuid : UUIDs, bckFrom : BIDs, phase : Phases]

\* tcbFactory.New followed by newXactTCB (called by Start): the factory copies
\* custom.Phase into its own phase field and keeps the pointer args; the job
\* gets a copy of the args struct (args: *e.args).
New(req) ==
    [uuid      |-> req.uuid,
     bckFrom   |-> req.bckFrom,
     phase     |-> req.phase,     \* tcbFactory.phase
     argsPhase |-> req.phase,     \* tcbFactory.args.Phase (through the pointer)
     xactPhase |-> req.phase]     \* XactTCB.args.Phase (the copy Args() returns)

\* The two debug.Assert conditions of WhenPrevIsRunning.
WprAsserts(e, prev) ==
    /\ prev.bckFrom = e.bckFrom
    /\ prev.phase = ActBegin /\ e.phase = ActCommit

\* tcbFactory.WhenPrevIsRunning in build b: e is the new request's factory,
\* prev the running entry. Returns the decision, the error and prev as it is
\* left; a debug build panics at a failed assertion.
WhenPrevIsRunning(e, prev, b) ==
    IF e.uuid # prev.uuid
      THEN [wpr |-> None, err |-> "conflict", prev |-> prev]
      ELSE IF b = "debug" /\ ~WprAsserts(e, prev)
        THEN [wpr |-> "panic", err |-> Nil, prev |-> prev]
        ELSE [wpr |-> "use", err |-> Nil,
              prev |-> [prev EXCEPT !.argsPhase = ActCommit]]

\* The registry renews the job for the bucket pair, one request at a time
\* (under its lock): with no running entry it starts the new factory,
\* otherwise it asks WhenPrevIsRunning.
Renew(req, startOk) ==
    /\ ~panicked
    /\ nreq < MaxReqs
    /\ nreq' = nreq + 1
    /\ LET e == New(req) IN
       IF running = NoEntry
         THEN /\ created' = created + 1
              /\ running' = IF startOk THEN e ELSE NoEntry
              /\ last' = [req |-> req, prev |-> NoEntry, created |-> created,
                          res |-> IF startOk THEN "new" ELSE "startErr"]
              /\ UNCHANGED build
         ELSE \E b \in Asserted(e.uuid # running.uuid \/ WprAsserts(e, running)) :
              LET w == WhenPrevIsRunning(e, running, b) IN
              /\ build' = b
              /\ created' = created
              /\ running' = w.prev
              /\ last' = [req |-> req, prev |-> running, created |-> created,
                          res |-> IF w.err # Nil THEN "conflict" ELSE w.wpr]
    /\ UNCHANGED <<jobVars, recvVars, poolVars, certVars>>

\* The running job finishes and the registry no longer finds it running.
Finished ==
    /\ ~panicked
    /\ running # NoEntry
    /\ running' = NoEntry
    /\ UNCHANGED <<build, created, nreq, last, jobVars, recvVars, poolVars, certVars>>

NextAdm ==
    \/ \E req \in Requests, startOk \in BOOLEAN : Renew(req, startOk)
    \/ Finished

InitAdm ==
    /\ running = NoEntry
    /\ created = 0
    /\ nreq = 0
    /\ last = [req |-> NoReq, prev |-> NoEntry, created |-> 0, res |-> None]

InitJob ==
    /\ pc = "init"
    /\ refc = 0
    /\ ntargets = 0
    /\ wg = 0
    /\ dm = [set |-> FALSE, reg |-> FALSE, open |-> FALSE]
    /\ nOpen = 0
    /\ nClose = 0
    /\ closeCalls = <<>>
    /\ txnAborted = FALSE
    /\ aborted = FALSE
    /\ shard = 0
    /\ todo = 0
    /\ wk = [w \in Workers |-> "idle"]
    /\ cur = [w \in Workers |-> 0]
    /\ objs = 0
    /\ bytes = 0
    /\ okSet = {}
    /\ capSeen = FALSE
    /\ pipeErr = Nil
    /\ waitErr = Nil
    /\ sent = <<>>
    /\ errSlot = Nil
    /\ firstErr = Nil
    /\ rc = [i \in RecvIds |-> "idle"]
    /\ nDone = 0
    /\ total = 0
    /\ q = None
    /\ runErr = None
    /\ finCalls = <<>>

\* No call of recv has begun.
InitCb ==
    /\ cb = [c \in Callbacks |-> "idle"]
    /\ rdr = [c \in Callbacks |-> [unread |-> FALSE, freed |-> FALSE]]
    /\ path = [c \in Callbacks |-> None]

\* cpObj0 (line 67): the zero value of cluster.CopyObjectParams, here with
\* a field filled per object (ObjNameTo) and one filled per job (DM).
cpObj0 == [ObjNameTo |-> 0, DM |-> FALSE]

\* cpObjPool is empty and no worker is inside copyObject.
InitPool ==
    /\ ppc = [w \in Workers |-> "idle"]
    /\ held = [w \in Workers |-> 0]
    /\ params = [a \in ParamIds |-> cpObj0]
    /\ inPool = {}
    /\ nalloc = 0

\* No certificate stored, no file on disk.
NoCert == [ver |-> 0, notAfter |-> 0]
NoFile == [ver |-> 0, ok |-> FALSE, notAfter |-> 0]

\* Before certloader.Init: gcl is nil; a certificate file may be on disk.
InitCert ==
    /\ gcl = FALSE
    /\ xcert = NoCert
    /\ flags = {}
    /\ file = NoFile
    /\ now = 0
    /\ hkReg = FALSE
    /\ got = None

Init ==
    /\ build = "any"
    /\ InitAdm
    /\ InitJob
    /\ InitCb
    /\ InitPool
    /\ InitCert

SpecAdm == Init /\ [][NextAdm]_vars

(***************************************************************************)
(* One job: Start, Run, TxnAbort, the copy pipeline, the receive handler   *)
(***************************************************************************)

\* Error values.
ErrAbortedTxn     == "aborted(txn-abort)"    \* TxnAbort, line 165
ErrAbortedRun     == "aborted()"             \* Run, line 224
ErrAbortedCopy    == "aborted(copy-obj)"     \* copyObject, line 252 (cause: OOS)
ErrAbortedCap     == "aborted(copy-obj: cap)" \* copyObject, line 267 (cause: cs.Err)
ErrAbortedWait    == "aborted(wait)"         \* XactBckJog.Wait on abort
ErrQuiesceTimeout == "quiesce-timeout"       \* Run, line 226
ErrCopy           == "copy-error"            \* any other CopyObject error
ErrLomInit        == "lom-init-error"        \* recv, line 297
ErrPut            == "put-error"             \* recv, line 315

\* Mutant of StartRefc: the node counts itself among the peers.
StartRefcCountsSelf(n) == n

\* Start, line 107: the peer-ack counter for n targets in the cluster map.
StartRefc(n) == n - 1

\* tcbFactory.Start with newDM: n targets in the cluster map, k objects in
\* the local shard. newDM fails in NewDataMover ("newErr") or in RegRecv
\* ("regErr"); either way e.xact.dm stays nil and Start returns the error.
Start(n, k, outcome) ==
    /\ ~panicked
    /\ pc = "init"
    /\ ntargets' = n
    /\ shard' = k
    /\ todo' = k
    /\ refc' = StartRefc(n)
    /\ wg' = wg + 1
    /\ IF outcome = "ok"
         THEN /\ dm' = [set |-> TRUE, reg |-> TRUE, open |-> FALSE]
              /\ pc' = "started"
         ELSE /\ dm' = dm
              /\ pc' = "startFailed"
    /\ UNCHANGED <<build, admVars, recvVars, poolVars, certVars, nOpen, nClose, closeCalls, txnAborted,
                   aborted, wk, cur, objs, bytes, okSet, capSeen, pipeErr, waitErr,
                   sent, errSlot, firstErr, rc,
                   nDone, total, q, runErr, finCalls>>

\* Mutant of TxnAbort: the receiver stays registered.
TxnAbortKeepsReceiver ==
    /\ ~panicked
    /\ dm.set
    /\ ~txnAborted
    /\ txnAborted' = TRUE
    /\ nClose' = IF dm.open THEN nClose + 1 ELSE nClose
    /\ closeCalls' = IF dm.open THEN Append(closeCalls, ErrAbortedTxn)
                              ELSE closeCalls
    /\ dm' = [dm EXCEPT !.open = FALSE]
    /\ finCalls' = Append(finCalls, ErrAbortedTxn)
    /\ UNCHANGED <<build, admVars, recvVars, poolVars, certVars, pc, refc, ntargets, wg, nOpen,
                   aborted, todo, wk, cntVars, pipeErr, waitErr, sent, errSlot,
                   firstErr, rc, nDone, total, q, runErr>>

\* XactTCB.TxnAbort: nothing in it looks at how far Run has come.
TxnAbort ==
    /\ ~panicked
    /\ dm.set
    /\ ~txnAborted
    /\ txnAborted' = TRUE
    /\ nClose' = IF dm.open THEN nClose + 1 ELSE nClose
    /\ closeCalls' = IF dm.open THEN Append(closeCalls, ErrAbortedTxn)
                              ELSE closeCalls
    /\ dm' = [dm EXCEPT !.open = FALSE, !.reg = FALSE]
    /\ finCalls' = Append(finCalls, ErrAbortedTxn)
    /\ UNCHANGED <<build, admVars, recvVars, poolVars, certVars, pc, refc, ntargets, wg, nOpen,
                   aborted, todo, wk, cntVars, pipeErr, waitErr, sent, errSlot, firstErr,
                   rc, nDone, total, q, runErr>>

\* External abort of the job (xact.Abort), seen by the pipeline between
\* objects and by the quiescence wait.
Abort ==
    /\ ~panicked
    /\ pc \in {"started", "jog", "waited", "bcast"}
    /\ ~aborted
    /\ aborted' = TRUE
    /\ UNCHANGED <<build, admVars, recvVars, poolVars, certVars, pc, refc, ntargets, wg, dm,
                   nOpen, nClose, closeCalls, txnAborted, todo, wk, cntVars, pipeErr, waitErr, sent,
                   errSlot, firstErr, rc, nDone, total, q, runErr,
                   finCalls>>

\* Run, lines 200-207: open the channel, release the startup waiters, start
\* the joggers.
RunOpen ==
    /\ ~panicked
    /\ pc = "started"
    /\ dm' = [dm EXCEPT !.open = TRUE]
    /\ nOpen' = nOpen + 1
    /\ wg' = wg - 1
    /\ pc' = "jog"
    /\ UNCHANGED <<build, admVars, recvVars, poolVars, certVars, refc, ntargets, nClose, closeCalls,
                   txnAborted, aborted, todo, wk, cntVars, pipeErr, waitErr, sent,
                   errSlot, firstErr, rc, nDone, total, q, runErr,
                   finCalls>>

\* copyObject, lines 237-248: a worker takes the next object of the shard.
CopyBegin(w) ==
    /\ ~panicked
    /\ pc = "jog"
    /\ wk[w] = "idle"
    /\ todo > 0
    /\ pipeErr = Nil
    /\ ~aborted
    /\ wk' = [wk EXCEPT ![w] = "copy"]
    /\ cur' = [cur EXCEPT ![w] = todo]
    /\ todo' = todo - 1
    /\ UNCHANGED <<build, admVars, recvVars, poolVars, certVars, pc, refc, ntargets, wg, dm,
                   nOpen, nClose, closeCalls, txnAborted, aborted, shard, objs, bytes,
                   okSet, capSeen, pipeErr, waitErr, sent,
                   errSlot, firstErr, rc, nDone, total, q, runErr,
                   finCalls>>

\* The error copyObject returns for the error of CopyObject, lines 250-255.
CopyErrOf(outcome) ==
    IF outcome = "oos" THEN ErrAbortedCopy
    ELSE IF outcome = "err" THEN ErrCopy
    ELSE Nil

\* CopyObject returned no error.
Copied(outcome) == outcome \in {"local", "sent"}

\* Mutant of CopyObjectErr: the capacity status is not looked at.
CopyObjectErrNoCap(outcome, capErr) == CopyErrOf(outcome)

\* The error copyObject returns, lines 250-268: the error of CopyObject, or,
\* after a copy that succeeded, the aborted error that wraps cs.Err.
CopyObjectErr(outcome, capErr) ==
    IF Copied(outcome) /\ capErr THEN ErrAbortedCap ELSE CopyErrOf(outcome)

\* lom.SizeBytes() of object o: the objects of the shard are 10, 20, 30, ...
\* bytes long.
SizeOf(o) == 10 * o

\* The size CopyObject may report for object o: its size, or unknown when a
\* transformation does not tell the size ahead.
CopySizes(o) == {SizeOf(o), ContentLengthUnknown}

\* Mutant of BytesOf: the reported size is added as it is.
BytesOfRaw(size, lomSize) == size

\* copyObject, lines 260-263: the amount added to the byte counter.
BytesOf(size, lomSize) == IF size = ContentLengthUnknown THEN lomSize ELSE size

\* Mutant of ObjectsInc: the increment of a successful copy is lost.
ObjectsIncLost(n) == n

\* copyObject, line 256: the atomic increment of the object counter.
ObjectsInc(n) == n + 1

\* copyObject, lines 249-271: CopyObject returns. "sent": the object belongs
\* to a peer and went out as a data record; "local": it was copied locally.
\* After a copy that succeeded the counters are updated and the capacity
\* status is consulted (capErr: it reports an error).
CopyEnd(w, outcome, capErr) ==
    /\ ~panicked
    /\ wk[w] = "copy"
    /\ outcome = "sent" => ntargets > 1
    /\ capErr => Copied(outcome)
    /\ wk' = [wk EXCEPT ![w] = "idle"]
    /\ cur' = [cur EXCEPT ![w] = 0]
    /\ sent' = IF outcome = "sent" THEN Append(sent, 0) ELSE sent
    /\ IF Copied(outcome)
         THEN /\ objs' = ObjectsInc(objs)
              /\ \E size \in CopySizes(cur[w]) :
                    bytes' = bytes + BytesOf(size, SizeOf(cur[w]))
              /\ okSet' = okSet \cup {cur[w]}
         ELSE UNCHANGED <<objs, bytes, okSet>>
    /\ capSeen' = (capSeen \/ capErr)
    /\ LET err == CopyObjectErr(outcome, capErr) IN
       /\ pipeErr' = IF pipeErr = Nil THEN err ELSE pipeErr
       /\ firstErr' = IF firstErr = Nil THEN err ELSE firstErr
    /\ UNCHANGED <<build, admVars, recvVars, poolVars, certVars, pc, refc, ntargets, wg, dm,
                   nOpen, nClose, closeCalls, txnAborted, aborted, shard, todo, waitErr,
                   errSlot, rc, nDone, total, q, runErr, finCalls>>

\* What XactBckJog.Wait may return once the joggers have stopped: the
\* aborted error when the job was aborted, the joggers' error (or nil) when
\* the walk ended.
WaitResults ==
    (IF aborted THEN {ErrAbortedWait} ELSE {})
      \cup (IF todo = 0 \/ pipeErr # Nil THEN {pipeErr} ELSE {})

\* Run, line 209: Wait returns when every jogger has stopped.
RunWait ==
    /\ ~panicked
    /\ pc = "jog"
    /\ \A w \in Workers : wk[w] = "idle"
    /\ \E e \in WaitResults :
         /\ waitErr' = e
         /\ firstErr' = IF firstErr = Nil THEN e ELSE firstErr
    /\ pc' = "waited"
    /\ UNCHANGED <<build, admVars, recvVars, poolVars, certVars, refc, ntargets, wg, dm, nOpen,
                   nClose, closeCalls, txnAborted, aborted, todo, wk, cntVars, pipeErr, sent,
                   errSlot, rc, nDone, total, q, runErr, finCalls>>

\* Mutant of RunBcast: the marker is broadcast before Wait, while workers
\* may still be inside copyObject.
RunBcastBeforeWait ==
    /\ ~panicked
    /\ pc = "jog"
    /\ sent' = Append(sent, doneSendingOpcode)
    /\ pc' = "bcast"
    /\ UNCHANGED <<build, admVars, recvVars, poolVars, certVars, refc, ntargets, wg, dm, nOpen,
                   nClose, closeCalls, txnAborted, aborted, todo, wk, cntVars, pipeErr, waitErr,
                   errSlot, firstErr, rc, nDone, total, q, runErr,
                   finCalls>>

\* Run, lines 211-213: broadcast the 'done sending' marker.
RunBcast ==
    /\ ~panicked
    /\ pc = "waited"
    /\ sent' = Append(sent, doneSendingOpcode)
    /\ pc' = "bcast"
    /\ UNCHANGED <<build, admVars, recvVars, poolVars, certVars, refc, ntargets, wg, dm, nOpen,
                   nClose, closeCalls, txnAborted, aborted, todo, wk, cntVars, pipeErr, waitErr,
                   errSlot, firstErr, rc, nDone, total, q, runErr,
                   finCalls>>

\* Mutant of Quiesce: the wait does not look at the abort.
QuiesceIgnoresAbort ==
    /\ ~panicked
    /\ pc = "bcast"
    /\ IF refc <= 0 THEN q' = "quiesced" /\ pc' = "quiesced" /\ total' = total
       ELSE IF total >= MaxTime THEN q' = "timeout" /\ pc' = "quiesced" /\ total' = total
       ELSE q' = q /\ pc' = pc /\ total' = total + 1
    /\ UNCHANGED <<build, admVars, recvVars, poolVars, certVars, refc, ntargets, wg, dm, nOpen,
                   nClose, closeCalls, txnAborted, aborted, todo, wk, cntVars,
                   pipeErr, waitErr, sent, errSlot, firstErr, rc, nDone,
                   runErr, finCalls>>

\* Run, lines 216-218: one poll of Quiesce with RefcntQuiCB. The wait ends
\* aborted when the job was aborted, quiesced when no peer is outstanding,
\* timed out when the maximum bound has elapsed; otherwise it sleeps.
Quiesce ==
    /\ ~panicked
    /\ pc = "bcast"
    /\ IF aborted THEN q' = "aborted" /\ pc' = "quiesced" /\ total' = total
       ELSE IF refc <= 0 THEN q' = "quiesced" /\ pc' = "quiesced" /\ total' = total
       ELSE IF total >= MaxTime THEN q' = "timeout" /\ pc' = "quiesced" /\ total' = total
       ELSE q' = q /\ pc' = pc /\ total' = total + 1
    /\ UNCHANGED <<build, admVars, recvVars, poolVars, certVars, refc, ntargets, wg, dm, nOpen,
                   nClose, closeCalls, txnAborted, aborted, todo, wk, cntVars, pipeErr, waitErr, sent,
                   errSlot, firstErr, rc, nDone, runErr, finCalls>>

\* Mutant of TerminalErr: the timed out wait is not reported.
TerminalErrNoTimeout(we, se, qr) ==
    IF we # Nil THEN we
    ELSE IF se # Nil THEN se
    ELSE IF qr = "aborted" THEN ErrAbortedRun
    ELSE Nil

\* Mutant of TerminalErr: the aborted wait is not reported.
TerminalErrNoAbort(we, se, qr) ==
    IF we # Nil THEN we
    ELSE IF se # Nil THEN se
    ELSE IF qr = "timeout" THEN ErrQuiesceTimeout
    ELSE Nil

\* Mutant of TerminalErr: the stored error is looked at before the err of
\* the pipeline.
TerminalErrSlotFirst(we, se, qr) ==
    IF se # Nil THEN se
    ELSE IF we # Nil THEN we
    ELSE IF qr = "aborted" THEN ErrAbortedRun
    ELSE IF qr = "timeout" THEN ErrQuiesceTimeout
    ELSE Nil

\* Run, lines 219-228: the err Run ends with, from the err of Wait, the
\* stored error and the result of Quiesce.
TerminalErr(we, se, qr) ==
    IF we # Nil THEN we
    ELSE IF se # Nil THEN se
    ELSE IF qr = "aborted" THEN ErrAbortedRun
    ELSE IF qr = "timeout" THEN ErrQuiesceTimeout
    ELSE Nil

\* Run, lines 219-234: pick the err, close and unregister the channel, Finish.
RunFinish ==
    /\ ~panicked
    /\ pc = "quiesced"
    /\ LET err == TerminalErr(waitErr, errSlot, q) IN
       /\ runErr' = err
       /\ finCalls' = Append(finCalls, err)
       /\ closeCalls' = Append(closeCalls, err)
    /\ nClose' = nClose + 1
    /\ dm' = [dm EXCEPT !.open = FALSE, !.reg = FALSE]
    /\ pc' = "done"
    /\ UNCHANGED <<build, admVars, recvVars, poolVars, certVars, refc, ntargets, wg, nOpen,
                   txnAborted, aborted, todo, wk, cntVars, pipeErr, waitErr, sent,
                   errSlot, firstErr, rc, nDone, total, q>>

\* cos.ErrValue.Store: the first stored error stays.
Store(slot, e) == IF slot = Nil THEN e ELSE slot

\* recv, lines 281-285: a record with the 'done sending' opcode. The
\* decrement is atomic and unconditional; the assertion follows it.
RecvDone ==
    /\ ~panicked
    /\ dm.reg
    /\ nDone < (ntargets - 1) + MaxExtra
    /\ nDone' = nDone + 1
    /\ refc' = refc - 1
    /\ build' \in Asserted(refc' >= 0)
    /\ UNCHANGED <<admVars, recvVars, poolVars, certVars, pc, ntargets, wg, dm, nOpen, nClose, closeCalls,
                   txnAborted, aborted, todo, wk, cntVars, pipeErr, waitErr, sent,
                   errSlot, firstErr, rc, total, q, runErr, finCalls>>

\* recv, lines 274-301, for the i-th record that is not a marker (records are
\* numbered as they arrive, each handled by its own call of recv): a record
\* that comes with a transport error ("terr") is dropped whatever its
\* opcode; a data record (opcode 0) is dropped when an error is already
\* stored; lom.Init may fail ("initErr"); otherwise the call enters PutObject.
RecvData(i, outcome) ==
    /\ ~panicked
    /\ dm.reg
    /\ rc[i] = "idle"
    /\ i > 1 => rc[i - 1] # "idle"
    /\ IF outcome = "terr" \/ errSlot # Nil
         THEN /\ rc' = [rc EXCEPT ![i] = "done"]
              /\ UNCHANGED <<errSlot, firstErr>>
       ELSE IF outcome = "initErr"
         THEN /\ errSlot' = Store(errSlot, ErrLomInit)
              /\ firstErr' = Store(firstErr, ErrLomInit)
              /\ rc' = [rc EXCEPT ![i] = "done"]
       ELSE /\ rc' = [rc EXCEPT ![i] = "put"]
            /\ UNCHANGED <<errSlot, firstErr>>
    /\ UNCHANGED <<build, admVars, recvVars, poolVars, certVars, pc, refc, ntargets, wg, dm,
                   nOpen, nClose, closeCalls, txnAborted, aborted, todo, wk, cntVars, pipeErr,
                   waitErr, sent, nDone, total, q, runErr, finCalls>>

\* recv, lines 303-318: PutObject returns for the i-th record.
RecvPut(i, ok) ==
    /\ ~panicked
    /\ rc[i] = "put"
    /\ rc' = [rc EXCEPT ![i] = "done"]
    /\ errSlot' = IF ok THEN errSlot ELSE Store(errSlot, ErrPut)
    /\ firstErr' = IF ok THEN firstErr ELSE Store(firstErr, ErrPut)
    /\ UNCHANGED <<build, admVars, recvVars, poolVars, certVars, pc, refc, ntargets, wg, dm,
                   nOpen, nClose, closeCalls, txnAborted, aborted, todo, wk, cntVars, pipeErr,
                   waitErr, sent, nDone, total, q, runErr, finCalls>>

Next ==
    \/ \E n \in 1..MaxTargets, k \in 0..MaxObjs,
          outcome \in {"ok", "newErr", "regErr"} : Start(n, k, outcome)
    \/ TxnAbort
    \/ Abort
    \/ RunOpen
    \/ \E w \in Workers : CopyBegin(w)
    \/ \E w \in Workers, outcome \in {"local", "sent", "err", "oos"},
          capErr \in BOOLEAN : CopyEnd(w, outcome, capErr)
    \/ RunWait
    \/ RunBcast
    \/ Quiesce
    \/ RunFinish
    \/ RecvDone
    \/ \E i \in RecvIds, outcome \in {"terr", "initErr", "put"} :
          RecvData(i, outcome)
    \/ \E i \in RecvIds, ok \in BOOLEAN : RecvPut(i, ok)

Spec == Init /\ [][Next]_vars

\* The scheduler runs every started step of Run, of the workers and of the
\* receive callbacks to its end; nothing obliges a caller to dispatch Run, a
\* peer to send, or anybody to abort.
Fairness ==
    /\ WF_vars(\E w \in Workers : CopyBegin(w))
    /\ WF_vars(\E w \in Workers, outcome \in {"local", "sent", "err", "oos"},
                  capErr \in BOOLEAN : CopyEnd(w, outcome, capErr))
    /\ WF_vars(RunWait)
    /\ WF_vars(RunBcast)
    /\ WF_vars(Quiesce)
    /\ WF_vars(RunFinish)

FairSpec == Spec /\ Fairness


(***************************************************************************)
(* The receive handler, statement by statement (SpecRecv): NumCallbacks    *)
(* calls of recv run concurrently in a job whose channel is open.          *)
(***************************************************************************)

\* What no statement of recv touches.
cbFrame == <<admVars, poolVars, certVars, pc, ntargets, wg, dm, nOpen, nClose, closeCalls,
             txnAborted, aborted, todo, wk, cntVars, pipeErr, waitErr, sent,
             rc, nDone, total, q, runErr, finCalls>>

\* The job after Start and the first statements of Run (lines 200-206), with
\* n targets in the cluster map and k objects in the local shard: the
\* channel is registered and open, the startup signal has fired.
Jogging(n, k) ==
    /\ pc = "jog"
    /\ ntargets = n
    /\ refc = StartRefc(n)
    /\ wg = 0
    /\ dm = [set |-> TRUE, reg |-> TRUE, open |-> TRUE]
    /\ nOpen = 1
    /\ nClose = 0
    /\ closeCalls = <<>>
    /\ txnAborted = FALSE
    /\ aborted = FALSE
    /\ shard = k
    /\ todo = k
    /\ wk = [w \in Workers |-> "idle"]
    /\ cur = [w \in Workers |-> 0]
    /\ objs = 0
    /\ bytes = 0
    /\ okSet = {}
    /\ capSeen = FALSE
    /\ pipeErr = Nil
    /\ waitErr = Nil
    /\ sent = <<>>
    /\ errSlot = Nil
    /\ firstErr = Nil
    /\ rc = [i \in RecvIds |-> "idle"]
    /\ nDone = 0
    /\ total = 0
    /\ q = None
    /\ runErr = None
    /\ finCalls = <<>>

\* A running job in a cluster with peers; its local shard is empty.
InitRecv ==
    /\ build = "any"
    /\ InitAdm
    /\ InitCb
    /\ InitPool
    /\ InitCert
    /\ \E n \in 2..MaxTargets : Jogging(n, 0)

\* The deferred transport.FreeRecv (line 275), alone: the reader goes back
\* to the transport as it is.
FreeRecv(r) == [r EXCEPT !.freed = TRUE]

\* The deferred cos.DrainReader (line 288) followed by the deferred
\* transport.FreeRecv (line 275): deferred calls run last registered first.
DrainAndFree(r) == FreeRecv([r EXCEPT !.unread = FALSE])

\* recv, lines 274-288: a record is delivered to call c. terr: it comes with
\* a transport error other than EOF; payload: its stream has bytes to read
\* (the marker is sent with a header only, lines 211-213).
CbEnter(c, opcode, terr, payload) ==
    /\ ~panicked
    /\ dm.reg
    /\ cb[c] = "idle"
    /\ (opcode = doneSendingOpcode /\ ~terr) => ~payload
    /\ LET r == [unread |-> payload, freed |-> FALSE] IN
       IF terr
         THEN /\ cb' = [cb EXCEPT ![c] = "done"]
              /\ path' = [path EXCEPT ![c] = "terr"]
              /\ rdr' = [rdr EXCEPT ![c] = FreeRecv(r)]
              /\ UNCHANGED <<build, refc>>
       ELSE IF opcode = doneSendingOpcode
         THEN /\ refc' = refc - 1
              /\ build' \in Asserted(refc' >= 0)
              /\ cb' = [cb EXCEPT ![c] = "done"]
              /\ path' = [path EXCEPT ![c] = "marker"]
              /\ rdr' = [rdr EXCEPT ![c] = FreeRecv(r)]
       ELSE /\ cb' = [cb EXCEPT ![c] = "entered"]
            /\ rdr' = [rdr EXCEPT ![c] = r]
            /\ UNCHANGED <<build, refc, path>>
    /\ UNCHANGED <<cbFrame, errSlot, firstErr>>

\* recv, lines 291-301: the look at the stored error, then lom.Init.
CbCheck(c, initOk) ==
    /\ ~panicked
    /\ cb[c] = "entered"
    /\ IF errSlot # Nil
         THEN /\ cb' = [cb EXCEPT ![c] = "done"]
              /\ path' = [path EXCEPT ![c] = "latched"]
              /\ rdr' = [rdr EXCEPT ![c] = DrainAndFree(rdr[c])]
              /\ UNCHANGED <<errSlot, firstErr>>
       ELSE IF ~initOk
         THEN /\ errSlot' = Store(errSlot, ErrLomInit)
              /\ firstErr' = Store(firstErr, ErrLomInit)
              /\ cb' = [cb EXCEPT ![c] = "done"]
              /\ path' = [path EXCEPT ![c] = "initErr"]
              /\ rdr' = [rdr EXCEPT ![c] = DrainAndFree(rdr[c])]
       ELSE /\ cb' = [cb EXCEPT ![c] = "ready"]
            /\ UNCHANGED <<errSlot, firstErr, path, rdr>>
    /\ UNCHANGED <<build, refc, cbFrame>>

\* recv, lines 303-315: PutObject is called.
CbPut(c) ==
    /\ ~panicked
    /\ cb[c] = "ready"
    /\ cb' = [cb EXCEPT ![c] = "put"]
    /\ UNCHANGED <<build, refc, errSlot, firstErr, rdr, path, cbFrame>>

\* recv, lines 315-319: PutObject returns, having read the whole stream when
\* it succeeded and any part of it when it failed (left: bytes are left).
CbPutReturn(c, ok, left) ==
    /\ ~panicked
    /\ cb[c] = "put"
    /\ ok => ~left
    /\ left => rdr[c].unread
    /\ errSlot' = IF ok THEN errSlot ELSE Store(errSlot, ErrPut)
    /\ firstErr' = IF ok THEN firstErr ELSE Store(firstErr, ErrPut)
    /\ cb' = [cb EXCEPT ![c] = "done"]
    /\ path' = [path EXCEPT ![c] = IF ok THEN "putOk" ELSE "putErr"]
    /\ rdr' = [rdr EXCEPT ![c] = DrainAndFree([rdr[c] EXCEPT !.unread = left])]
    /\ UNCHANGED <<build, refc, cbFrame>>

NextRecv ==
    \/ \E c \in Callbacks, opcode \in {0, doneSendingOpcode},
          terr \in BOOLEAN, payload \in BOOLEAN : CbEnter(c, opcode, terr, payload)
    \/ \E c \in Callbacks, initOk \in BOOLEAN : CbCheck(c, initOk)
    \/ \E c \in Callbacks : CbPut(c)
    \/ \E c \in Callbacks, ok \in BOOLEAN, left \in BOOLEAN : CbPutReturn(c, ok, left)

SpecRecv == InitRecv /\ [][NextRecv]_vars

(***************************************************************************)
(* copyObject, statement by statement, with the pool of CopyObjectParams   *)
(* (SpecPool): the workers of a running job walk its local shard.          *)
(***************************************************************************)

\* What no statement of copyObject touches.
cpFrame == <<build, admVars, recvVars, certVars, pc, refc, ntargets, wg, dm, nOpen,
             nClose, closeCalls, txnAborted, aborted, shard, waitErr, errSlot,
             rc, nDone, total, q, runErr, finCalls>>

\* A running job with MaxObjs objects in its local shard.
InitCopy ==
    /\ build = "any"
    /\ InitAdm
    /\ InitCb
    /\ InitPool
    /\ InitCert
    /\ \E n \in 1..MaxTargets : Jogging(n, MaxObjs)

\* allocCpObjParams, lines 70-76: what it may return. cpObjPool.Get returns
\* one of the objects put and not taken again, or nil, also when the pool is
\* not empty; on nil a new object is allocated.
allocCpObjParams ==
    inPool \cup (IF nalloc < MaxParams THEN {nalloc + 1} ELSE {})

\* Mutant of freeCpObjParams: the object is put back as it is.
freeCpObjParamsAsIs(a) == a

\* freeCpObjParams, line 79: the fields an object a is put back with.
freeCpObjParams(a) == cpObj0

\* copyObject, lines 237-240: a worker takes the next object of the shard
\* and borrows the CopyObjectParams a.
CpAlloc(w, a) ==
    /\ pc = "jog"
    /\ ppc[w] = "idle"
    /\ todo > 0
    /\ pipeErr = Nil
    /\ ~aborted
    /\ a \in allocCpObjParams
    /\ held' = [held EXCEPT ![w] = a]
    /\ inPool' = inPool \ {a}
    /\ nalloc' = IF a > nalloc THEN a ELSE nalloc
    /\ ppc' = [ppc EXCEPT ![w] = "got"]
    /\ wk' = [wk EXCEPT ![w] = "copy"]
    /\ cur' = [cur EXCEPT ![w] = todo]
    /\ todo' = todo - 1
    /\ UNCHANGED <<cpFrame, params, objs, bytes, okSet, capSeen, pipeErr,
                   sent, firstErr>>

\* copyObject, lines 241-248: the fields are filled.
CpFill(w) ==
    /\ ppc[w] = "got"
    /\ params' = [params EXCEPT ![held[w]] = [ObjNameTo |-> cur[w], DM |-> TRUE]]
    /\ ppc' = [ppc EXCEPT ![w] = "filled"]
    /\ UNCHANGED <<cpFrame, held, inPool, nalloc, todo, wk, cur, objs, bytes,
                   okSet, capSeen, pipeErr, sent, firstErr>>

\* copyObject, lines 249-268: CopyObject returns; control reaches the label
\* ret by the goto of line 254 or past the capacity check.
CpReturn(w, outcome, capErr) ==
    /\ ppc[w] = "filled"
    /\ outcome = "sent" => ntargets > 1
    /\ capErr => Copied(outcome)
    /\ ppc' = [ppc EXCEPT ![w] = IF ~Copied(outcome) THEN "retErr"
                                 ELSE IF capErr THEN "retCap" ELSE "retOk"]
    /\ sent' = IF outcome = "sent" THEN Append(sent, 0) ELSE sent
    /\ IF Copied(outcome)
         THEN /\ objs' = ObjectsInc(objs)
              /\ \E size \in CopySizes(cur[w]) :
                    bytes' = bytes + BytesOf(size, SizeOf(cur[w]))
              /\ okSet' = okSet \cup {cur[w]}
         ELSE UNCHANGED <<objs, bytes, okSet>>
    /\ capSeen' = (capSeen \/ capErr)
    /\ LET err == CopyObjectErr(outcome, capErr) IN
       /\ pipeErr' = IF pipeErr = Nil THEN err ELSE pipeErr
       /\ firstErr' = IF firstErr = Nil THEN err ELSE firstErr
    /\ UNCHANGED <<cpFrame, held, params, inPool, nalloc, todo, wk, cur>>

\* copyObject, lines 269-271, with freeCpObjParams, lines 78-81: the object
\* is reset and put back, and copyObject returns.
CpFree(w) ==
    /\ ppc[w] \in {"retOk", "retErr", "retCap"}
    /\ params' = [params EXCEPT ![held[w]] = freeCpObjParams(params[held[w]])]
    /\ inPool' = inPool \cup {held[w]}
    /\ held' = [held EXCEPT ![w] = 0]
    /\ ppc' = [ppc EXCEPT ![w] = "idle"]
    /\ wk' = [wk EXCEPT ![w] = "idle"]
    /\ cur' = [cur EXCEPT ![w] = 0]
    /\ UNCHANGED <<cpFrame, nalloc, todo, objs, bytes, okSet, capSeen,
                   pipeErr, sent, firstErr>>

NextPool ==
    \/ \E w \in Workers, a \in ParamIds : CpAlloc(w, a)
    \/ \E w \in Workers : CpFill(w)
    \/ \E w \in Workers, outcome \in {"local", "sent", "err", "oos"},
          capErr \in BOOLEAN : CpReturn(w, outcome, capErr)
    \/ \E w \in Workers : CpFree(w)

SpecPool == InitCopy /\ [][NextPool]_vars

(***************************************************************************)
(* The certificate loader (package certloader, SpecCert)                   *)
(***************************************************************************)

CertificateExpired == "expired"
CertificateInvalid == "invalid"

\* What the loader leaves alone.
certFrame == <<build, admVars, jobVars, recvVars, poolVars>>

\* The certificate files that may be written to disk as version v: the pair
\* may fail to load or parse (ok FALSE); a certificate is valid until
\* notAfter.
Files(v) == [ver : {v}, ok : BOOLEAN, notAfter : 0..MaxNow]

\* xcert.ini, lines 232-239, at time t: the error for certificate file f.
ini(f, t) == IF t > f.notAfter THEN CertificateExpired ELSE Nil

\* certLoader.do, lines 163-198: the error it returns and whether it clears
\* the flags and stores the certificate it read (store). The file's ModTime
\* and Size are its version.
do(compare) ==
    IF file = NoFile THEN [err |-> "fstat", store |-> FALSE]
    ELSE IF compare /\ file.ver = xcert.ver THEN [err |-> Nil, store |-> FALSE]
    ELSE IF ~file.ok THEN [err |-> "load", store |-> FALSE]
    ELSE IF ini(file, now) # Nil THEN [err |-> ini(file, now), store |-> FALSE]
    ELSE [err |-> Nil, store |-> TRUE]

\* The certificate do stores.
Stored(d) == IF d.store THEN [ver |-> file.ver, notAfter |-> file.notAfter]
             ELSE xcert

\* Load, lines 77-87: the flags after do returned d.
LoadFlags(d) ==
    IF d.store THEN {}
    ELSE IF d.err = Nil THEN flags
    ELSE IF d.err = CertificateExpired THEN flags \cup {CertificateExpired}
    ELSE flags \cup {CertificateInvalid}

\* The environment writes a new certificate file.
WriteFile(f) ==
    /\ f.ver = file.ver + 1
    /\ file' = f
    /\ UNCHANGED <<certFrame, gcl, xcert, flags, now, hkReg, got>>

\* Time passes.
Tick ==
    /\ now < MaxNow
    /\ now' = now + 1
    /\ UNCHANGED <<certFrame, gcl, xcert, flags, file, hkReg, got>>

\* Init, lines 60-74, called with file names (with none it returns at once
\* and there is no loader): construct the loader, Load, and register the
\* housekeeping callback unless Load failed.
CertInit ==
    /\ ~gcl
    /\ gcl' = TRUE
    /\ LET d == do(FALSE) IN
       /\ xcert' = Stored(d)
       /\ flags' = LoadFlags(d)
       /\ hkReg' = (d.err = Nil)
    /\ UNCHANGED <<certFrame, file, now, got>>

\* Load, lines 77-87, through the API.
Load ==
    /\ gcl
    /\ got # "panic"
    /\ LET d == do(FALSE) IN
       /\ xcert' = Stored(d)
       /\ flags' = LoadFlags(d)
    /\ UNCHANGED <<certFrame, gcl, file, now, hkReg, got>>

\* hktime, lines 96-123: the flags after it; with no alert set it reads the
\* stored certificate and raises the expired alert when nothing remains.
hktime(fl, x) ==
    IF fl # {} THEN fl
    ELSE IF x.notAfter - now > 0 THEN fl
    ELSE {CertificateExpired}

\* hk, lines 89-94: the housekeeping reload (do with compare) and hktime.
hk ==
    /\ hkReg
    /\ got # "panic"
    /\ LET d == do(TRUE) IN
       /\ xcert' = Stored(d)
       /\ flags' = hktime(IF d.store THEN {} ELSE flags, Stored(d))
    /\ UNCHANGED <<certFrame, gcl, file, now, hkReg, got>>

\* errorf, lines 125-137: the invalid error, the expired error built from
\* the stored certificate's notAfter, or nil; with the expired alert set and
\* no certificate stored it dereferences nil.
errorf ==
    IF CertificateInvalid \in flags THEN "errInvalid"
    ELSE IF CertificateExpired \in flags
      THEN IF xcert = NoCert THEN "panic" ELSE "errExpired"
    ELSE Nil

\* GetCert, lines 143-149: the callback, or the error of errorf.
GetCert ==
    /\ gcl
    /\ got # "panic"
    /\ got' = IF errorf = Nil THEN "hello" ELSE errorf
    /\ UNCHANGED <<certFrame, gcl, xcert, flags, file, now, hkReg>>

\* GetClientCert, lines 155-161: the callback, or the error of errorf.
GetClientCert ==
    /\ gcl
    /\ got # "panic"
    /\ got' = IF errorf = Nil THEN "info" ELSE errorf
    /\ UNCHANGED <<certFrame, gcl, xcert, flags, file, now, hkReg>>

NextCert ==
    \/ \E v \in 1..MaxVer : \E f \in Files(v) : WriteFile(f)
    \/ Tick
    \/ CertInit
    \/ Load
    \/ hk
    \/ GetCert
    \/ GetClientCert

SpecCert == Init /\ [][NextCert]_vars

(***************************************************************************)
(* Claims about admission (checked under SpecAdm)                          *)
(***************************************************************************)

\* The last request met a running entry.
MetRunning == last.prev # NoEntry

\* The last request is the commit continuation of the running begin-phase
\* job: same job ID, same source bucket identity, begin then commit.
Matching ==
    /\ MetRunning
    /\ last.req.uuid = last.prev.uuid
    /\ last.req.bckFrom = last.prev.bckFrom
    /\ last.prev.phase = ActBegin
    /\ last.req.phase = ActCommit

\* C1: a begin request that arrives while a begin-phase job for the bucket
\* pair is running creates no instance and is rejected with a conflict
\* error, also when it carries the running job's ID (stated for the release
\* build, where no assertion stops the request).
C1_BeginWhileRunningRejected ==
    (~panicked /\ MetRunning /\ last.prev.phase = ActBegin
       /\ last.req.phase = ActBegin)
        => (last.res = "conflict" /\ created = last.created)

\* C2: after a matching commit request no instance was created, the caller
\* was told to reuse the running one, and the phase of the running entry
\* (the factory's phase and the phase Args() reports) is commit.
C2_CommitTransitionsPhase ==
    (Matching /\ running # NoEntry)
        => /\ last.res = "use"
           /\ created = last.created
           /\ running.phase = ActCommit
           /\ running.xactPhase = ActCommit

\* C3: while a job is running a request is accepted only if it is the
\* matching commit; every other request gets a conflict error and leaves
\* the running entry as it was (stated for the release build, where no
\* assertion stops the request).
C3_OnlyMatchingCommitAccepted ==
    (~panicked /\ MetRunning) =>
        /\ (last.res = "use") => Matching
        /\ ~Matching => /\ last.res = "conflict"
                        /\ running # NoEntry => running = last.prev

(***************************************************************************)
(* Claims about one job (checked under Spec and FairSpec)                  *)
(***************************************************************************)

\* C4: the peer-ack counter is never negative.
C4_RefcNeverNegative == refc >= 0

\* The poll of Quiesce that ends the wait, and the last step of Run.
Resolves == pc = "bcast" /\ pc' = "quiesced"
Finishes == pc = "quiesced" /\ pc' = "done"

\* C5: with one marker received from each of the N-1 peers the counter has
\* gone from N-1 to exactly 0; a wait that ends then, the job not aborted,
\* ends quiesced; and a quiesced wait with no pipeline error and no stored
\* error makes Run finish with nil.
C5_AllPeersDone ==
    /\ []((pc # "init" /\ nDone = 0) => refc = ntargets - 1)
    /\ []((pc # "init" /\ nDone = ntargets - 1) => refc = 0)
    /\ [][(Resolves /\ nDone = ntargets - 1 /\ ~aborted) => q' = "quiesced"]_vars
    /\ [][(Finishes /\ q = "quiesced" /\ waitErr = Nil /\ errSlot = Nil)
            => (runErr' = Nil /\ finCalls' = Append(finCalls, Nil))]_vars

C5_Witness ==
    /\ pc = "done"
    /\ ntargets = MaxTargets
    /\ nDone = ntargets - 1
    /\ refc = 0
    /\ q = "quiesced"
    /\ runErr = Nil

\* C6: Run terminates (short of a panic of the process); a wait that ends
\* with peers outstanding and the job not aborted ends timed out, not before
\* the maximum bound; and after a timed out wait with no pipeline error and
\* no stored error the channel is closed and unregistered and the job is
\* finished with the quiescence timeout error.
C6_RunTerminates ==
    /\ (pc = "jog") ~> (pc = "done" \/ panicked)
    /\ [][(Resolves /\ refc > 0 /\ ~aborted)
            => (q' = "timeout" /\ total >= MaxTime)]_vars
    /\ [][(Finishes /\ q = "timeout" /\ waitErr = Nil /\ errSlot = Nil)
            => /\ runErr' = ErrQuiesceTimeout
               /\ finCalls' = Append(finCalls, ErrQuiesceTimeout)
               /\ ~dm'.open /\ ~dm'.reg]_vars

C6_Witness ==
    /\ pc = "done"
    /\ nDone < ntargets - 1
    /\ q = "timeout"
    /\ runErr = ErrQuiesceTimeout
    /\ ~dm.open /\ ~dm.reg

\* C7 as stated: of a pipeline error and a receive-side error, the job
\* finishes with the one that came first in time.
C7_FirstInTimeWins ==
    (pc = "done" /\ ntargets > 1 /\ pipeErr # Nil /\ errSlot # Nil /\ ~aborted)
        => runErr = firstErr

\* C7 as amended: the err of the pipeline is the terminal error whenever
\* there is one, also when a receive-side error was stored before it; with no
\* pipeline error the terminal error is the first error stored.
C7_PipelineErrorFirst ==
    [][Finishes => runErr' = IF waitErr # Nil THEN waitErr
                             ELSE IF firstErr # Nil THEN firstErr
                             ELSE runErr']_vars

C7_Witness ==
    /\ pc = "done"
    /\ ntargets > 1
    /\ pipeErr # Nil
    /\ errSlot # Nil
    /\ firstErr = errSlot
    /\ runErr = pipeErr

\* Positions of the 'done sending' marker among the records sent.
Markers == {i \in 1..Len(sent) : sent[i] = doneSendingOpcode}

\* C8: the marker is sent once per Run, when no worker is inside copyObject
\* any more, and no data record follows it.
C8_MarkerAfterEnumeration ==
    /\ Cardinality(Markers) = IF pc \in {"bcast", "quiesced", "done"} THEN 1 ELSE 0
    /\ \A i \in Markers : i = Len(sent)
    /\ Markers # {} => \A w \in Workers : wk[w] = "idle"

C8_Witness ==
    /\ pc = "done"
    /\ Len(sent) >= 2
    /\ sent[1] = 0
    /\ sent[Len(sent)] = doneSendingOpcode
    /\ pipeErr # Nil

\* C9: on every path a started job takes (Run, a failed Start, TxnAbort
\* before Run) the startup signal has fired, and it never fires twice.
C9_StartupSignalFires ==
    /\ wg >= 0
    /\ (pc \notin {"init", "started"} \/ txnAborted) => wg = 0

\* C10: Finish is called once, the channel is closed once and is not open
\* again after it was closed.
C10_FinishedOnce ==
    /\ Len(finCalls) <= 1
    /\ nClose <= 1
    /\ ~(dm.open /\ nClose > 0)

(***************************************************************************)
(* Claims about the counters and the capacity abort (checked under Spec)   *)
(***************************************************************************)

\* The errors classified as aborted (cmn.NewErrAborted).
IsAborted(e) ==
    e \in {ErrAbortedTxn, ErrAbortedRun, ErrAbortedCopy, ErrAbortedCap,
           ErrAbortedWait}

\* The sum of the sizes of the objects in S.
RECURSIVE SumSizes(_)
SumSizes(S) ==
    IF S = {} THEN 0
    ELSE LET o == CHOOSE x \in S : TRUE IN SizeOf(o) + SumSizes(S \ {o})

\* A worker returns from copyObject with the capacity status in error.
CapacityStep == ~capSeen /\ capSeen'

\* C11 as stated: a job in which the capacity status reported an error
\* after a successful copy finishes with an error classified as aborted.
C11_CapacityErrorIsTerminal ==
    (pc = "done" /\ capSeen) => IsAborted(runErr)

\* C11 as amended: the copy that is followed by the capacity error is
\* counted (counter + 1, its size added); the walk stops (no object is taken
\* once an error was returned, so the worker counts no later object); an
\* out-of-space error of the copy is turned into an aborted error without
\* counting; and when the aborted error is the first error the pipeline
\* returned, the job finishes with an error classified as aborted.
C11_CapacityAbort ==
    /\ [][CapacityStep =>
            \E w \in Workers :
               /\ cur[w] # 0 /\ cur'[w] = 0
               /\ objs' = objs + 1
               /\ bytes' = bytes + SizeOf(cur[w])
               /\ cur[w] \in okSet'
               /\ pipeErr = Nil => pipeErr' = ErrAbortedCap]_vars
    /\ [][pipeErr # Nil =>
            /\ todo' = todo
            /\ \A w \in Workers : wk[w] = "idle" => wk'[w] = "idle"]_vars
    /\ [][(pipeErr = Nil /\ pipeErr' = ErrAbortedCopy) =>
            (objs' = objs /\ bytes' = bytes /\ okSet' = okSet)]_vars
    /\ []((pc = "done" /\ pipeErr \in {ErrAbortedCap, ErrAbortedCopy})
            => IsAborted(runErr))

\* The capacity error came after the last but one object of the shard.
C11_Witness ==
    /\ pc = "done"
    /\ shard = MaxObjs
    /\ pipeErr = ErrAbortedCap
    /\ objs = shard - 1
    /\ todo = 1
    /\ bytes = SumSizes(okSet)
    /\ IsAborted(runErr)

\* A run on a single-node cluster: no peer exists, so no record arrives; the
\* job is neither aborted nor cancelled and no copy fails.
CleanSingleNode ==
    /\ ntargets = 1
    /\ nDone = 0
    /\ \A i \in RecvIds : rc[i] = "idle"
    /\ ~aborted /\ ~txnAborted
    /\ pipeErr = Nil

\* C12: on a single-node cluster the peer-ack counter is 0 from Start on,
\* the wait ends quiesced on its first poll, and a clean run ends with the
\* object counter at the number of objects of the shard, the byte counter
\* at the sum of their sizes and the terminal error nil.
C12_SingleNodeCleanRun ==
    /\ (ntargets = 1 /\ nDone = 0) => refc = 0
    /\ (CleanSingleNode /\ q # None) => (q = "quiesced" /\ total = 0)
    /\ (CleanSingleNode /\ pc = "done") =>
          /\ objs = shard
          /\ bytes = SumSizes(1..shard)
          /\ runErr = Nil
          /\ finCalls = <<Nil>>

C12_Witness ==
    /\ CleanSingleNode
    /\ pc = "done"
    /\ shard = MaxObjs
    /\ objs = MaxObjs
    /\ bytes = SumSizes(1..MaxObjs)
    /\ refc = 0
    /\ q = "quiesced"
    /\ runErr = Nil

\* C18: the counters never decrease; the object counter is the number of
\* copies that succeeded and the byte counter the sum of their sizes, so no
\* update is lost and a failed copy changes neither.
C18_CountersMonotone ==
    /\ [](objs = Cardinality(okSet) /\ bytes = SumSizes(okSet))
    /\ [][objs' >= objs /\ bytes' >= bytes]_vars
    /\ [][objs' # objs => (objs' = objs + 1 /\ bytes' >= bytes)]_vars

\* Two workers were inside copyObject at once: the copy of the first object
\* taken failed, the copy of the other one succeeded.
C18_Witness ==
    /\ shard = MaxObjs
    /\ todo = shard - 2
    /\ \A w \in Workers : wk[w] = "idle"
    /\ okSet = {shard - 1}
    /\ objs = 1
    /\ bytes = SizeOf(shard - 1)
    /\ pipeErr = ErrCopy

(***************************************************************************)
(* Claims about the end of the job and its cancellation                    *)
(***************************************************************************)

\* C15: Run finishes with the err of the pipeline if there is one, else with
\* the stored receive-side error if there is one, else with the error of the
\* way the wait ended (aborted, timed out, or nil when quiesced); Close and
\* Finish get the same error.
C15_TerminalErrorOrder ==
    [][Finishes =>
        /\ q \in {"aborted", "timeout", "quiesced"}
        /\ runErr' = IF waitErr # Nil THEN waitErr
                     ELSE IF errSlot # Nil THEN errSlot
                     ELSE IF q = "aborted" THEN ErrAbortedRun
                     ELSE IF q = "timeout" THEN ErrQuiesceTimeout
                     ELSE Nil
        /\ closeCalls' = Append(closeCalls, runErr')
        /\ finCalls' = Append(finCalls, runErr')]_vars

\* A stored receive-side error comes before the error of an aborted wait.
C15_Witness ==
    /\ pc = "done"
    /\ waitErr = Nil
    /\ errSlot = ErrPut
    /\ q = "aborted"
    /\ runErr = ErrPut
    /\ closeCalls = <<ErrPut>>
    /\ finCalls = <<ErrPut>>

\* The step of TxnAbort.
TxnAborts == ~txnAborted /\ txnAborted'

\* C16: TxnAbort closes the channel with the aborted error if it is open and
\* does not close it otherwise; either way it unregisters the receiver and
\* finishes the job with the same aborted error; from then on the receiver
\* stays unregistered and no record, marker or data, is delivered to recv.
C16_TxnAbortClosesAndFinishes ==
    /\ [][TxnAborts =>
            /\ closeCalls' = IF dm.open THEN Append(closeCalls, ErrAbortedTxn)
                                        ELSE closeCalls
            /\ ~dm'.open /\ ~dm'.reg
            /\ finCalls' = Append(finCalls, ErrAbortedTxn)]_vars
    /\ [](txnAborted => ~dm.reg)
    /\ [][txnAborted =>
            /\ nDone' = nDone
            /\ \A i \in RecvIds : rc[i] = "idle" => rc'[i] = "idle"]_vars

\* TxnAbort before Run: the channel was never opened.
C16_Witness ==
    /\ pc = "started"
    /\ txnAborted
    /\ nOpen = 0
    /\ closeCalls = <<>>
    /\ ~dm.reg
    /\ finCalls = <<ErrAbortedTxn>>

\* C17: once the job is aborted the wait does not sleep again and ends
\* aborted, whatever the peer-ack counter; Run then finishes with the aborted
\* error unless Wait returned an error or an error is stored. An abort
\* during the pipeline lets no worker take another object, and Run still
\* broadcasts the marker and finishes.
C17_AbortObserved ==
    /\ [][(pc = "bcast" /\ aborted) => total' = total]_vars
    /\ [][(Resolves /\ aborted) => q' = "aborted"]_vars
    /\ [][(Finishes /\ q = "aborted" /\ waitErr = Nil /\ errSlot = Nil)
            => /\ runErr' = ErrAbortedRun
               /\ finCalls' = Append(finCalls, ErrAbortedRun)]_vars
    /\ [][aborted => todo' = todo]_vars
    /\ (aborted /\ pc = "bcast") ~> ((pc = "quiesced" /\ q = "aborted") \/ panicked)
    /\ (aborted /\ pc = "jog") ~> ((pc = "done" /\ Markers # {}) \/ panicked)

\* The abort came during the wait, with a peer still outstanding.
C17_Witness ==
    /\ pc = "done"
    /\ aborted
    /\ waitErr = Nil
    /\ errSlot = Nil
    /\ refc > 0
    /\ total < MaxTime
    /\ q = "aborted"
    /\ runErr = ErrAbortedRun

(***************************************************************************)
(* Claims about the receive handler (checked under SpecRecv)               *)
(***************************************************************************)

\* C13: a call of recv that has returned, on whichever path, has left the
\* payload stream with nothing unread and has handed it back.
C13_DrainedOnEveryPath ==
    \A c \in Callbacks :
        cb[c] = "done" => (~rdr[c].unread /\ rdr[c].freed)

\* C14: PutObject is called only while no error is stored.
C14_NoPutAfterError ==
    [][\A c \in Callbacks :
          (cb[c] = "ready" /\ cb'[c] = "put") => errSlot = Nil]_vars

(***************************************************************************)
(* Claims about the pool of copy parameters (checked under SpecPool)       *)
(***************************************************************************)

\* C19: a worker holds a CopyObjectParams exactly while it is inside
\* copyObject and has put it back when it is out again, whichever way the
\* copy ended; an object in the pool has every field at its zero value, and
\* so has an object just borrowed, before its borrower fills it; no object is
\* held by two workers or held and in the pool at once.
C19_ParamsBorrowedAndReset ==
    /\ \A w \in Workers : (ppc[w] = "idle") <=> (held[w] = 0)
    /\ \A w \in Workers : held[w] # 0 => held[w] \in 1..nalloc \ inPool
    /\ \A a \in 1..nalloc : a \in inPool \/ \E w \in Workers : held[w] = a
    /\ \A a \in inPool : params[a] = cpObj0
    /\ \A w \in Workers : ppc[w] = "got" => params[held[w]] = cpObj0
    /\ \A v, w \in Workers : (v # w /\ held[v] # 0) => held[v] # held[w]

\* The copy of the first object is over and its CopyObjectParams, the only
\* one allocated, is borrowed again for the second object.
C19_Witness ==
    /\ nalloc = 1
    /\ todo = shard - 2
    /\ objs = 1
    /\ \E w \in Workers : ppc[w] = "got" /\ held[w] = 1

(***************************************************************************)
(* Claims about the certificate loader (checked under SpecCert)            *)
(***************************************************************************)

\* C20: whenever the expired alert is set a certificate is stored, so that
\* GetCert and GetClientCert build the expired error and never dereference
\* nil; and a load that fails leaves the stored certificate as it was.
C20_ExpiredHasCertificate ==
    /\ [](CertificateExpired \in flags => xcert # NoCert)
    /\ [](got # "panic")
    /\ [][xcert' # xcert =>
            (file.ok /\ ini(file, now) = Nil /\ xcert'.ver = file.ver)]_vars

====
